---------------------------- MODULE Spec2Model ----------------------------
(***************************************************************************)
(* Model of the ledger engine of the supply-chain tracker (src/app.py):    *)
(* the Block / Blockchain classes, the chain file blockchain.json, and the *)
(* script runs (one per browser session) that construct a Blockchain from  *)
(* the file and call its methods.                                          *)
(*                                                                         *)
(* Strings that hold digests are modelled as records [tag, body]:          *)
(*   "0"            the genesis sentinel          [tag "0",      body <<>>]*)
(*   ""             the empty string (falsy)      [tag "",       body <<>>]*)
(*   null / absent  JSON null (falsy)             [tag "null",   body <<>>]*)
(*   a hex digest   sha256 of a text              [tag "sha256", body <<t>>*)
(* sha256 is idealised as collision free: the digest carries the text it   *)
(* was computed from, so two digests are equal exactly when the texts are. *)
(***************************************************************************)
EXTENDS Integers, Sequences, FiniteSets, TLC

VARIABLES
    file,      \* blockchain.json: [state, items]
    pc,        \* pc[s]: where the script run of session s stands
    chain,     \* chain[s]: bc.chain of session s, a sequence of Blocks
    last,      \* last[s]: the last Blockchain call of session s and how it ended
    turn,      \* the session that made the most recent call
    appends,   \* number of add_block calls made so far (bounds the model)
    tamper,    \* the edit made to the file outside the program, if any
    health,    \* health[s]: what is_chain_valid returned to the run of session s
    shown,     \* shown[s]: the error, warning or view the run's handler rendered
    session    \* session[s]: st.session_state of session s (logged_in, user)

vars == <<file, pc, chain, last, turn, appends, tamper, health, shown, session>>

(***************************** bounds **************************************)
\* total number of add_block calls in a behaviour
MaxAppends == 2
\* the browser sessions whose script runs share the chain file
Sessions == {"s1", "s2"}

\* values _now() can return (second resolution; the wall clock may repeat or go back)
Times == {"2024-01-01 10:00:00", "2024-01-01 10:00:01"}

\* the product ids of the records the callers append
ProductIds == {"PRD-A", "PRD-B"}

(***************************** digests *************************************)
Str0 == [tag |-> "0", body |-> <<>>]
StrEmpty == [tag |-> "", body |-> <<>>]
JsonNull == [tag |-> "null", body |-> <<>>]

\* Python truthiness of a stored hash value
Truthy(h) == h.tag \notin {"", "null"}

\* json.dumps(obj, sort_keys=True, separators=sep): the text is determined by
\* the key/value mapping (keys sorted) and by the separators
json_dumps(obj, sep) == [sep |-> sep, obj |-> obj]

sha256_hexdigest(text) == [tag |-> "sha256", body |-> <<text>>]

\* details values: a dict is [t |-> "dict", kv |-> set of <<key, value>>]
Dict(kv) == [t |-> "dict", kv |-> kv]
PyNone == [t |-> "none", kv |-> {}]

(***************************** Block ***************************************)
block_content(b) ==
    [index |-> b.index, timestamp |-> b.timestamp, product_id |-> b.product_id,
     actor_role |-> b.actor_role, actor_name |-> b.actor_name,
     location |-> b.location, status |-> b.status,
     payment_method |-> b.payment_method, details |-> b.details,
     previous_hash |-> b.previous_hash]

compute_hash(b) == sha256_hexdigest(json_dumps(block_content(b), "compact"))

\* Block.__init__: details None becomes {}, hash computed on creation
Block(index, timestamp, product_id, actor_role, actor_name, location, status, payment_method, details, previous_hash) ==
    LET core == [index |-> index, timestamp |-> timestamp,
                 product_id |-> product_id, actor_role |-> actor_role,
                 actor_name |-> actor_name, location |-> location,
                 status |-> status, payment_method |-> payment_method,
                 details |-> IF details # PyNone THEN details ELSE Dict({}),
                 previous_hash |-> previous_hash]
    IN  [index |-> core.index, timestamp |-> core.timestamp,
         product_id |-> core.product_id, actor_role |-> core.actor_role,
         actor_name |-> core.actor_name, location |-> core.location,
         status |-> core.status, payment_method |-> core.payment_method,
         details |-> core.details, previous_hash |-> core.previous_hash,
         hash |-> compute_hash(core)]

to_dict(b) ==
    [index |-> b.index, timestamp |-> b.timestamp, product_id |-> b.product_id,
     actor_role |-> b.actor_role, actor_name |-> b.actor_name,
     location |-> b.location, status |-> b.status,
     payment_method |-> b.payment_method, details |-> b.details,
     previous_hash |-> b.previous_hash, hash |-> b.hash]

(***************************** the chain file ******************************)
\* the file does not exist, holds text json.load rejects, or holds a JSON list
NoFile == [state |-> "absent", items |-> <<>>]
BadFile == [state |-> "malformed", items |-> <<>>]
JsonFile(items) == [state |-> "ok", items |-> items]

\* what the operating system can do to one save: the write goes through, open()
\* fails (file untouched), or open() truncates the file and the write fails
IoOutcomes == {"ok", "open_fails", "write_fails"}

\* a storage medium on which every write goes through
IoReliable == {"ok"}

\* json.dump([b.to_dict() for b in chain], f): the list written by a save
dump_chain(c) == [i \in 1..Len(c) |-> to_dict(c[i])]

\* save_to_file: the file after the save, under outcome io
save_to_file(c, f, io) ==
    CASE io = "ok" -> JsonFile(dump_chain(c))
      [] io = "open_fails" -> f
      [] OTHER -> BadFile

\* save_to_file raises IOError unless the write went through
save_raises(io) == io # "ok"

\* load_item passing actor_name and actor_role to Block in the wrong order
load_item_swapped(item) ==
    LET b == Block(item.index, item.timestamp, item.product_id, item.actor_name,
                   item.actor_role, item.location, item.status,
                   item.payment_method, item.details, item.previous_hash)
    IN  IF Truthy(item.hash) THEN [b EXCEPT !.hash = item.hash]
                             ELSE [b EXCEPT !.hash = compute_hash(b)]

\* load_item ignoring the stored details
load_item_no_details(item) ==
    LET b == Block(item.index, item.timestamp, item.product_id, item.actor_role,
                   item.actor_name, item.location, item.status,
                   item.payment_method, Dict({}), item.previous_hash)
    IN  IF Truthy(item.hash) THEN [b EXCEPT !.hash = item.hash]
                             ELSE [b EXCEPT !.hash = compute_hash(b)]

\* one item of the loaded list turned into a Block: the stored hash is kept
\* when it is truthy, recomputed otherwise
load_item(item) ==
    LET b == Block(item.index, item.timestamp, item.product_id, item.actor_role,
                   item.actor_name, item.location, item.status,
                   item.payment_method, item.details, item.previous_hash)
    IN  IF Truthy(item.hash) THEN [b EXCEPT !.hash = item.hash]
                             ELSE [b EXCEPT !.hash = compute_hash(b)]

\* load_from_file skipping the first item of the list
load_from_file_skip_first(f) ==
    [i \in 1..(Len(f.items) - 1) |-> load_item(f.items[i + 1])]

\* load_from_file: the chain built from a well-formed file
load_from_file(f) == [i \in 1..Len(f.items) |-> load_item(f.items[i])]

\* load_from_file raises (json.load fails) on a malformed file
load_raises(f) == f.state = "malformed"

(***************************** Blockchain **********************************)
\* the record create_genesis_block builds at time ts
genesis_block(ts) ==
    Block(0, ts, "GENESIS", "Network", "Genesis", "N/A", "Genesis Block", "N/A",
          Dict({<<"note", "Initial genesis block">>}), Str0)

\* add_block linking the new record to the sentinel instead of the last hash
add_block_unlinked(c, args, ts) ==
    LET previous == c[Len(c)]
    IN  Append(c, Block(previous.index + 1, ts, args.product_id, args.actor_role,
                        args.actor_name, args.location, args.status,
                        args.payment_method, args.details, Str0))

\* add_block writing the new record over the last one instead of appending
add_block_overwrite(c, args, ts) ==
    LET previous == c[Len(c)]
    IN  [c EXCEPT ![Len(c)] =
            Block(previous.index + 1, ts, args.product_id, args.actor_role,
                  args.actor_name, args.location, args.status,
                  args.payment_method, args.details, previous.hash)]

\* add_block numbering the new record with the chain length plus one
add_block_off_by_one(c, args, ts) ==
    LET previous == c[Len(c)]
    IN  Append(c, Block(Len(c) + 1, ts, args.product_id, args.actor_role,
                        args.actor_name, args.location, args.status,
                        args.payment_method, args.details, previous.hash))

\* add_block recomputing the hash of the last record before linking to it
add_block_repairing(c, args, ts) ==
    LET previous == [c[Len(c)] EXCEPT !.hash = compute_hash(c[Len(c)])]
    IN  Append([c EXCEPT ![Len(c)] = previous],
               Block(previous.index + 1, ts, args.product_id, args.actor_role,
                     args.actor_name, args.location, args.status,
                     args.payment_method, args.details, previous.hash))

\* item.get("index", 0) of an item whose index is null: None. It is modelled
\* by an integer no record of the program carries (TLC cannot compare an
\* integer with a value of another kind).
NoneIndex == -1

\* add_block raises TypeError at previous.index + 1 when that index is None
add_block_raises(c) == c[Len(c)].index = NoneIndex

\* the chain after add_block(args) at time ts
add_block(c, args, ts) ==
    LET previous == c[Len(c)]
        new_index == previous.index + 1
        new_block == Block(new_index, ts, args.product_id, args.actor_role,
                           args.actor_name, args.location, args.status,
                           args.payment_method, args.details, previous.hash)
    IN  Append(c, new_block)

\* is_chain_valid: the position i of the first failing check (1-based, 0 when
\* every check passes)
FirstBad(c) ==
    LET bad == {i \in 2..Len(c) :
                  \/ c[i].previous_hash # c[i-1].hash
                  \/ c[i].hash # compute_hash(c[i])}
    IN  IF bad = {} THEN 0 ELSE CHOOSE i \in bad : \A j \in bad : i <= j

\* is_chain_valid comparing the hash before the link at each position
is_chain_valid_hash_first(c) ==
    LET k == FirstBad(c)
    IN  IF k = 0 THEN [valid |-> TRUE, kind |-> "Chain is valid", block |-> 0]
        ELSE IF c[k].hash # compute_hash(c[k])
             THEN [valid |-> FALSE, kind |-> "Hash mismatch", block |-> k - 1]
             ELSE [valid |-> FALSE, kind |-> "Broken link", block |-> k - 1]

\* is_chain_valid: the result; block is the 0-based position the message names
\* ("Broken link: block i-1 -> i" names i, "Hash mismatch at block i" names i)
is_chain_valid(c) ==
    LET k == FirstBad(c)
    IN  IF k = 0 THEN [valid |-> TRUE, kind |-> "Chain is valid", block |-> 0]
        ELSE IF c[k].previous_hash # c[k-1].hash
             THEN [valid |-> FALSE, kind |-> "Broken link", block |-> k - 1]
             ELSE [valid |-> FALSE, kind |-> "Hash mismatch", block |-> k - 1]

(***************************** queries *************************************)
\* get_product_journey returning the dicts of every record but the genesis
get_product_journey_all(c, product_id) ==
    LET own == SelectSeq(c, LAMBDA b : b.product_id # "GENESIS")
    IN  [i \in 1..Len(own) |-> to_dict(own[i])]

\* get_product_journey falling back to the first record when none matches
get_product_journey_default(c, product_id) ==
    LET own == SelectSeq(c, LAMBDA b : b.product_id = product_id)
    IN  IF own = <<>> THEN <<to_dict(c[1])>>
        ELSE [i \in 1..Len(own) |-> to_dict(own[i])]

\* get_product_journey: the dicts of the records of product_id, in chain order
get_product_journey(c, product_id) ==
    LET own == SelectSeq(c, LAMBDA b : b.product_id = product_id)
    IN  [i \in 1..Len(own) |-> to_dict(own[i])]

\* d.get(key, default) on a details dict
dict_get(d, key, default) ==
    IF \E kv \in d.kv : kv[1] = key
    THEN (CHOOSE kv \in d.kv : kv[1] = key)[2]
    ELSE default

(***************************** text inputs *********************************)
\* The text typed into an input is a sequence of pieces: a piece is a run of
\* whitespace (" ") or a run of text that neither starts nor ends with a blank.
RECURSIVE Text(_)
Text(pieces) == IF pieces = <<>> THEN "" ELSE Head(pieces) \o Text(Tail(pieces))

\* str.strip(): the text without its leading and trailing whitespace
strip(pieces) ==
    LET solid == {i \in 1..Len(pieces) : pieces[i] # " "}
        first == CHOOSE i \in solid : \A j \in solid : i <= j
        final == CHOOSE i \in solid : \A j \in solid : j <= i
    IN  IF solid = {} THEN "" ELSE Text(SubSeq(pieces, first, final))

\* what callers type into the Product ID inputs of the three forms
TypedPids == {<<"PRD-A">>, <<" ", "PRD-B", " ">>, <<>>, <<" ", " ">>}

\* what a customer types into the Customer Name input
TypedNames == {<<"Customer E">>, <<" ">>, <<>>}

\* what callers type into the two search inputs
TypedSearches == {<<"PRD-A", " ">>, <<"PRD-Z">>, <<" ">>}

(***************************** users ***************************************)
DEFAULT_USERS ==
    ("farmer" :> [password |-> "farmer123", role |-> "Farmer", name |-> "Farmer A"])
    @@ ("wholesaler" :> [password |-> "wholesaler123", role |-> "Wholesaler",
                         name |-> "Wholesaler B"])
    @@ ("distributor" :> [password |-> "distributor123", role |-> "Distributor",
                          name |-> "Distributor C"])
    @@ ("retailer" :> [password |-> "retailer123", role |-> "Retailer",
                       name |-> "Retailer D"])
    @@ ("customer" :> [password |-> "customer123", role |-> "Customer",
                       name |-> "Customer E"])

\* st.session_state.user = None, and the session state defaults
NoUser == [username |-> "", password |-> "", role |-> "", name |-> ""]
LoggedOut == [logged_in |-> FALSE, user |-> NoUser]

\* "Login": the session state it leaves (LoggedOut with its error shown when
\* the credentials do not match)
login_button(username, password) ==
    IF /\ username # ""
       /\ username \in DOMAIN DEFAULT_USERS
       /\ DEFAULT_USERS[username].password = password
    THEN [logged_in |-> TRUE,
          user |-> [username |-> username,
                    password |-> DEFAULT_USERS[username].password,
                    role |-> DEFAULT_USERS[username].role,
                    name |-> DEFAULT_USERS[username].name]]
    ELSE LoggedOut

\* the username / password pairs typed into the login inputs
Credentials ==
    {<<u, DEFAULT_USERS[u].password>> : u \in DOMAIN DEFAULT_USERS}
        \cup {<<"farmer", "customer123">>, <<"", "">>, <<"admin", "admin">>}

\* one account for each of the three forms
WorkingCredentials ==
    {<<"farmer", "farmer123">>, <<"distributor", "distributor123">>,
     <<"customer", "customer123">>}

(***************************** callers *************************************)
\* the argument tuples the three forms of the script pass to add_block
CreateArgs(p, user) ==
    [product_id |-> p, actor_role |-> "Farmer", actor_name |-> user.name,
     location |-> "Amritsar, Punjab", status |-> "Created",
     payment_method |-> "COD", details |-> Dict({<<"product_name", "Mango">>})]

UpdateArgs(p, user) ==
    [product_id |-> p, actor_role |-> user.role,
     actor_name |-> user.name, location |-> "Hub-A",
     status |-> "In Transit", payment_method |-> "UPI",
     details |-> Dict({<<"notes", "">>})]

CustomerArgs(p, n) ==
    [product_id |-> p, actor_role |-> "Customer", actor_name |-> n,
     location |-> "Unknown", status |-> "Delivered",
     payment_method |-> "Credit Card",
     details |-> Dict({<<"customer_name", n>>, <<"phone", "">>,
                       <<"email", "">>, <<"address", "">>})]

\* A submitted form gives the error it shows ("" when none) and the add_block
\* calls it makes (none or one).
Rejected(message) == [error |-> message, calls |-> {}]
Accepted(args) == [error |-> "", calls |-> {args}]

\* "Create Product"
create_product_btn(new_pid, user) ==
    IF strip(new_pid) = "" THEN Rejected("Product ID required.")
    ELSE Accepted(CreateArgs(strip(new_pid), user))

\* "Record Transaction"
record_tx_btn(t_pid, user) ==
    IF strip(t_pid) = "" THEN Rejected("Product ID required.")
    ELSE Accepted(UpdateArgs(strip(t_pid), user))

\* "Submit Customer Details" accepting whatever was typed
cust_submit_btn_unchecked(c_pid, c_name) ==
    Accepted(CustomerArgs(strip(c_pid), strip(c_name)))

\* "Submit Customer Details"
cust_submit_btn(c_pid, c_name) ==
    IF strip(c_pid) = "" THEN Rejected("Product ID required.")
    ELSE IF strip(c_name) = "" THEN Rejected("Customer name required.")
    ELSE Accepted(CustomerArgs(strip(c_pid), strip(c_name)))

\* every form rendered to everyone
form_rendered_to_all(form, sess) == form \in {"create", "update", "customer"}

\* the form is on the page of a session with state sess
form_rendered(form, sess) ==
    /\ sess.logged_in
    /\ CASE form = "create" -> sess.user.role = "Farmer"
         [] form = "update" ->
                sess.user.role \in {"Wholesaler", "Distributor", "Retailer"}
         [] form = "customer" -> sess.user.role = "Customer"
         [] OTHER -> FALSE

\* a form with what was typed into it, and what pressing its button does
Typed(form, pid, name) == [form |-> form, pid |-> pid, name |-> name]

submit(typed, user) ==
    CASE typed.form = "create" -> create_product_btn(typed.pid, user)
      [] typed.form = "update" -> record_tx_btn(typed.pid, user)
      [] OTHER -> cust_submit_btn(typed.pid, typed.name)

\* the forms a caller can submit in one script run
Submissions ==
    {Typed("create", t, <<>>) : t \in TypedPids}
        \cup {Typed("update", t, <<>>) : t \in TypedPids}
        \cup {Typed("customer", t, n) : t \in TypedPids, n \in TypedNames}

\* "View Journey": the page it renders
view_journey_btn(c, search_pid) ==
    LET journey == get_product_journey(c, strip(search_pid))
    IN  IF strip(search_pid) = ""
        THEN [view |-> "journey", message |-> "Enter a Product ID.",
              product_id |-> "", body |-> <<>>]
        ELSE IF journey = <<>>
        THEN [view |-> "journey",
              message |-> "No records found for this Product ID.",
              product_id |-> strip(search_pid), body |-> <<>>]
        ELSE [view |-> "journey", message |-> "",
              product_id |-> strip(search_pid), body |-> journey]

\* the summary taking its current fields from the record with the latest
\* timestamp
customer_summary_by_time(journey) ==
    LET late == {k \in 1..Len(journey) :
                    journey[k].timestamp = "2024-01-01 10:00:01"}
        first == journey[1]
        final == IF late = {} THEN journey[Len(journey)]
                 ELSE journey[CHOOSE k \in late : \A j \in late : j <= k]
    IN  [product_name |-> dict_get(first.details, "product_name", "Unknown"),
         origin |-> first.location,
         final_location |-> final.location,
         status |-> final.status,
         payment_method |-> final.payment_method,
         details |-> final.details]

\* the summary "Show Customer Summary" writes for a non-empty journey
customer_summary(journey) ==
    LET first == journey[1]
        final == journey[Len(journey)]
    IN  [product_name |-> dict_get(first.details, "product_name", "Unknown"),
         origin |-> first.location,
         final_location |-> final.location,
         status |-> final.status,
         payment_method |-> final.payment_method,
         details |-> final.details]

\* "Show Customer Summary": the page it renders
summary_btn(c, summary_pid) ==
    LET journey == get_product_journey(c, strip(summary_pid))
    IN  IF strip(summary_pid) = ""
        THEN [view |-> "summary", message |-> "Enter a Product ID.",
              product_id |-> "", body |-> <<>>]
        ELSE IF journey = <<>>
        THEN [view |-> "summary",
              message |-> "No records found for this Product ID.",
              product_id |-> strip(summary_pid), body |-> <<>>]
        ELSE [view |-> "summary", message |-> "",
              product_id |-> strip(summary_pid),
              body |-> <<customer_summary(journey)>>]

(***************************** state ***************************************)
\* pc[s] is "idle" while session s holds no Blockchain (no run yet, or the
\* constructor raised), "ready" once bc = Blockchain() returned, and "done"
\* once the run's button handler was called: a script run constructs bc and
\* then calls at most one of add_block, create_genesis_block, save_to_file.

NoCall == [op |-> "none", result |-> "ok", recovered |-> FALSE]
Call(op, raised, recovered) ==
    [op |-> op, result |-> IF raised THEN "raised" ELSE "ok",
     recovered |-> recovered]

\* tamper: no edit yet; the edit now in the file (pos is the 0-based position
\* of the edited record); or an edit that a later write has overwritten
NoTamper == [pos |-> 0, field |-> "none"]
Spent == [pos |-> 0, field |-> "spent"]

\* nothing verified yet, nothing rendered yet
NoHealth == [valid |-> FALSE, kind |-> "none", block |-> 0]
NoView == [view |-> "none", message |-> "", product_id |-> "", body |-> <<>>]

\* the edit mark after a save: kept only when the save left the file untouched
AfterSave(io) ==
    IF io = "open_fails" \/ tamper = NoTamper THEN tamper ELSE Spent

Init ==
    /\ file = NoFile
    /\ pc = [s \in Sessions |-> "idle"]
    /\ chain = [s \in Sessions |-> <<>>]
    /\ last = [s \in Sessions |-> NoCall]
    /\ turn = "none"
    /\ appends = 0
    /\ tamper = NoTamper
    /\ health = [s \in Sessions |-> NoHealth]
    /\ shown = [s \in Sessions |-> NoView]
    /\ session = [s \in Sessions |-> LoggedOut]

(***************************** actions *************************************)
\* A new script run. bc = Blockchain(): load the file when it holds a list; on
\* a load error, or when there is no file, create_genesis_block (which saves).
\* An IOError of that save leaves the run without a Blockchain; otherwise the
\* run goes on to the chain health line, bc.is_chain_valid().
Construct(s, ios) ==
    /\ IF file.state = "ok"
       THEN /\ chain' = [chain EXCEPT ![s] = load_from_file(file)]
            /\ pc' = [pc EXCEPT ![s] = "ready"]
            /\ last' = [last EXCEPT ![s] = Call("init", FALSE, FALSE)]
            /\ UNCHANGED <<file, tamper>>
       ELSE \E ts \in Times, io \in ios :
            LET fresh == <<genesis_block(ts)>>
            IN  /\ chain' = [chain EXCEPT ![s] =
                                IF save_raises(io) THEN <<>> ELSE fresh]
                /\ file' = save_to_file(fresh, file, io)
                /\ pc' = [pc EXCEPT ![s] =
                             IF save_raises(io) THEN "idle" ELSE "ready"]
                /\ last' = [last EXCEPT ![s] =
                               Call("init", save_raises(io), load_raises(file))]
                /\ tamper' = AfterSave(io)
    /\ health' = [health EXCEPT ![s] =
                     IF pc'[s] = "ready" THEN is_chain_valid(chain'[s])
                                         ELSE NoHealth]
    /\ shown' = [shown EXCEPT ![s] = NoView]
    /\ turn' = s
    /\ UNCHANGED <<appends, session>>

\* "Login" (on the page while logged out): a matching username and password
\* log the session in, anything else shows the error
Login(s, credentials) ==
    /\ pc[s] = "ready"
    /\ ~session[s].logged_in
    /\ \E cred \in credentials :
        /\ session' = [session EXCEPT ![s] = login_button(cred[1], cred[2])]
        /\ shown' = [shown EXCEPT ![s] =
                        [view |-> "login",
                         message |-> IF login_button(cred[1], cred[2]).logged_in
                                     THEN "" ELSE "Invalid credentials",
                         product_id |-> "", body |-> <<>>]]
    /\ last' = [last EXCEPT ![s] = Call("login", FALSE, FALSE)]
    /\ pc' = [pc EXCEPT ![s] = "done"]
    /\ turn' = s
    /\ UNCHANGED <<file, chain, appends, tamper, health>>

\* "Logout" (on the page while logged in)
Logout(s) ==
    /\ pc[s] = "ready"
    /\ session[s].logged_in
    /\ session' = [session EXCEPT ![s] = LoggedOut]
    /\ last' = [last EXCEPT ![s] = Call("logout", FALSE, FALSE)]
    /\ pc' = [pc EXCEPT ![s] = "done"]
    /\ turn' = s
    /\ UNCHANGED <<file, chain, appends, tamper, health, shown>>

\* One of the forms on the page is submitted. A form with a blank required input
\* shows its error and calls nothing; otherwise bc.add_block(...): a TypeError
\* at previous.index + 1 leaves the chain as it was; else the record is
\* appended in memory and the chain saved, and the IOError of a failed save
\* propagates to the caller with the record already appended.
AddBlock(s, ios, forms) ==
    /\ pc[s] = "ready"
    /\ Len(chain[s]) > 0
    /\ \E typed \in forms :
        /\ form_rendered(typed.form, session[s])
        /\ LET form == submit(typed, session[s].user)
           IN  IF form.calls = {}
               THEN /\ last' = [last EXCEPT ![s] = Call("rejected", FALSE, FALSE)]
                    /\ shown' = [shown EXCEPT ![s] =
                                    [view |-> "form", message |-> form.error,
                                     product_id |-> "", body |-> <<>>]]
                    /\ UNCHANGED <<chain, file, tamper, appends>>
               ELSE /\ appends < MaxAppends
                    /\ appends' = appends + 1
                    /\ UNCHANGED shown
                    /\ IF add_block_raises(chain[s])
                       THEN /\ last' = [last EXCEPT ![s] = Call("add_block", TRUE, FALSE)]
                            /\ UNCHANGED <<chain, file, tamper>>
                       ELSE \E args \in form.calls, ts \in Times, io \in ios :
                            LET c == add_block(chain[s], args, ts)
                            IN  /\ chain' = [chain EXCEPT ![s] = c]
                                /\ file' = save_to_file(c, file, io)
                                /\ last' = [last EXCEPT ![s] =
                                               Call("add_block", save_raises(io), FALSE)]
                                /\ tamper' = AfterSave(io)
    /\ pc' = [pc EXCEPT ![s] = "done"]
    /\ turn' = s
    /\ UNCHANGED <<health, session>>

\* "Reset chain to genesis" adding a genesis record after the records held
Reset_append(s, ios) ==
    /\ pc[s] = "ready"
    /\ \E ts \in Times, io \in ios :
        LET c == Append(chain[s], genesis_block(ts))
        IN  /\ chain' = [chain EXCEPT ![s] = c]
            /\ file' = save_to_file(c, file, io)
            /\ last' = [last EXCEPT ![s] = Call("reset", save_raises(io), FALSE)]
            /\ tamper' = AfterSave(io)
    /\ turn' = s
    /\ pc' = [pc EXCEPT ![s] = "done"]
    /\ UNCHANGED <<appends, health, shown, session>>

\* "Reset chain to genesis": bc.create_genesis_block()
Reset(s, ios) ==
    /\ pc[s] = "ready"
    /\ \E ts \in Times, io \in ios :
        LET c == <<genesis_block(ts)>>
        IN  /\ chain' = [chain EXCEPT ![s] = c]
            /\ file' = save_to_file(c, file, io)
            /\ last' = [last EXCEPT ![s] = Call("reset", save_raises(io), FALSE)]
            /\ tamper' = AfterSave(io)
    /\ turn' = s
    /\ pc' = [pc EXCEPT ![s] = "done"]
    /\ UNCHANGED <<appends, health, shown, session>>

\* "Export chain to JSON": bc.save_to_file()
Export(s, ios) ==
    /\ pc[s] = "ready"
    /\ \E io \in ios :
        /\ file' = save_to_file(chain[s], file, io)
        /\ last' = [last EXCEPT ![s] = Call("export", save_raises(io), FALSE)]
        /\ tamper' = AfterSave(io)
    /\ turn' = s
    /\ pc' = [pc EXCEPT ![s] = "done"]
    /\ UNCHANGED <<chain, appends, health, shown, session>>

\* "View Journey" taking the records it renders out of the chain
ViewJourney_consuming(s, searches) ==
    /\ pc[s] = "ready"
    /\ \E search_pid \in searches :
        /\ shown' = [shown EXCEPT ![s] = view_journey_btn(chain[s], search_pid)]
        /\ chain' = [chain EXCEPT ![s] =
                        SelectSeq(chain[s],
                                  LAMBDA b : b.product_id # strip(search_pid))]
    /\ last' = [last EXCEPT ![s] = Call("view_journey", FALSE, FALSE)]
    /\ pc' = [pc EXCEPT ![s] = "done"]
    /\ turn' = s
    /\ UNCHANGED <<file, appends, tamper, health, session>>

\* "View Journey": render the journey of the product id typed in the search
ViewJourney(s, searches) ==
    /\ pc[s] = "ready"
    /\ \E search_pid \in searches :
        shown' = [shown EXCEPT ![s] = view_journey_btn(chain[s], search_pid)]
    /\ last' = [last EXCEPT ![s] = Call("view_journey", FALSE, FALSE)]
    /\ pc' = [pc EXCEPT ![s] = "done"]
    /\ turn' = s
    /\ UNCHANGED <<file, chain, appends, tamper, health, session>>

\* "Show Customer Summary": render the summary of the product id typed in
ShowSummary(s, searches) ==
    /\ pc[s] = "ready"
    /\ \E summary_pid \in searches :
        shown' = [shown EXCEPT ![s] = summary_btn(chain[s], summary_pid)]
    /\ last' = [last EXCEPT ![s] = Call("summary", FALSE, FALSE)]
    /\ pc' = [pc EXCEPT ![s] = "done"]
    /\ turn' = s
    /\ UNCHANGED <<file, chain, appends, tamper, health, session>>

(***************************** the older variant ***************************)
\* The older variant of the script works on the same blockchain.json. Its
\* compute_hash calls json.dumps(block_content, sort_keys=True) with the
\* default separators.
legacy_compute_hash(b) == sha256_hexdigest(json_dumps(block_content(b), "default"))

\* its Block.__init__: falsy details become {}, hash computed on creation
legacy_Block(index, timestamp, product_id, actor_role, actor_name, location, status, payment_method, details, previous_hash) ==
    LET core == [index |-> index, timestamp |-> timestamp,
                 product_id |-> product_id, actor_role |-> actor_role,
                 actor_name |-> actor_name, location |-> location,
                 status |-> status, payment_method |-> payment_method,
                 details |-> IF details \notin {PyNone, Dict({})} THEN details
                                                                ELSE Dict({}),
                 previous_hash |-> previous_hash]
    IN  [index |-> core.index, timestamp |-> core.timestamp,
         product_id |-> core.product_id, actor_role |-> core.actor_role,
         actor_name |-> core.actor_name, location |-> core.location,
         status |-> core.status, payment_method |-> core.payment_method,
         details |-> core.details, previous_hash |-> core.previous_hash,
         hash |-> legacy_compute_hash(core)]

\* its load_from_file: b.hash = item.get("hash", b.compute_hash()) keeps the
\* stored hash of every item that has one
legacy_load_item(item) ==
    LET b == legacy_Block(item.index, item.timestamp, item.product_id,
                          item.actor_role, item.actor_name, item.location,
                          item.status, item.payment_method, item.details,
                          item.previous_hash)
    IN  [b EXCEPT !.hash = item.hash]

legacy_load_from_file(f) ==
    [i \in 1..Len(f.items) |-> legacy_load_item(f.items[i])]

\* its create_genesis_block
legacy_genesis_block(ts) ==
    legacy_Block(0, ts, "GENESIS", "Network", "Genesis", "N/A", "Genesis Block",
                 "N/A", Dict({<<"note", "Initial genesis block">>}), Str0)

\* its add_block: the new record is numbered len(self.chain)
legacy_add_block(c, args, ts) ==
    LET prev == c[Len(c)]
    IN  Append(c, legacy_Block(Len(c), ts, args.product_id, args.actor_role,
                               args.actor_name, args.location, args.status,
                               args.payment_method, args.details, prev.hash))

\* its "Submit Customer Info" (the only form it has)
legacy_submit_customer_info(product_id, customer_id, name) ==
    IF strip(product_id) = "" \/ strip(customer_id) = "" \/ strip(name) = ""
    THEN Rejected("Product ID, Customer ID, and Name are required")
    ELSE Accepted([product_id |-> strip(product_id), actor_role |-> "Customer",
                   actor_name |-> strip(name), location |-> "Unknown",
                   status |-> "Delivered", payment_method |-> "UPI",
                   details |-> Dict({<<"customer_id", Text(customer_id)>>,
                                     <<"customer_name", Text(name)>>,
                                     <<"phone", "">>, <<"email", "">>,
                                     <<"address", "">>})])

\* what the customer of the older variant types into its form
LegacyInputs ==
    {[product_id |-> <<"PRD-A">>, customer_id |-> <<"C-1">>,
      name |-> <<"Customer E">>],
     [product_id |-> <<"PRD-B", " ">>, customer_id |-> <<>>,
      name |-> <<"Customer E">>]}

\* One run of the older variant's script in which its logged-in customer
\* submits the form. bc = Blockchain(): load the file when there is one (an
\* error of json.load ends the run), else create_genesis_block, which saves
\* (an IOError ends the run). Then the handler: a blank required input shows
\* the error; otherwise add_block appends and saves.
LegacyRun(ios, inputs) ==
    /\ file.state # "malformed"
    /\ \E typed \in inputs, ts0 \in Times, ts \in Times, io0 \in ios, io \in ios :
        LET held == IF file.state = "ok" THEN legacy_load_from_file(file)
                                         ELSE <<legacy_genesis_block(ts0)>>
            file0 == IF file.state = "ok" THEN file
                                          ELSE save_to_file(held, file, io0)
            constructed == file.state = "ok" \/ ~save_raises(io0)
            form == legacy_submit_customer_info(typed.product_id,
                                                typed.customer_id, typed.name)
        IN  IF ~constructed \/ form.calls = {} \/ Len(held) = 0
            THEN /\ file' = file0
                 /\ UNCHANGED appends
            ELSE /\ appends < MaxAppends
                 /\ appends' = appends + 1
                 /\ \E args \in form.calls :
                       file' = save_to_file(legacy_add_block(held, args, ts), file0, io)
    /\ UNCHANGED <<pc, chain, last, turn, tamper, health, shown, session>>

(***************************** edits outside the program ********************)
ItemFields ==
    {"index", "timestamp", "product_id", "actor_role", "actor_name", "location",
     "status", "payment_method", "details", "previous_hash", "hash"}

\* values an editor of the file may put in a field of an item
EditValues(item, field) ==
    CASE field = "index" -> {item.index + 1, NoneIndex}
      [] field = "timestamp" -> {"1999-12-31 23:59:59"}
      [] field = "product_id" -> {"PRD-X"}
      [] field = "actor_role" -> {"Network"}
      [] field = "actor_name" -> {"Mallory"}
      [] field = "location" -> {"Elsewhere"}
      [] field = "status" -> {"Returned"}
      [] field = "payment_method" -> {"N/A"}
      [] field = "details" -> {Dict({}), PyNone}
      [] field = "previous_hash" -> {Str0, item.hash}
      [] OTHER -> {StrEmpty, JsonNull, item.previous_hash}

\* someone with access to blockchain.json changes the value of one field of
\* one record (once per behaviour)
Tamper ==
    /\ tamper = NoTamper
    /\ file.state = "ok"
    /\ \E i \in 1..Len(file.items), field \in ItemFields :
        \E v \in EditValues(file.items[i], field) \ {file.items[i][field]} :
            /\ file' = JsonFile([file.items EXCEPT ![i][field] = v])
            /\ tamper' = [pos |-> i - 1, field |-> field]
    /\ turn' = "editor"
    /\ UNCHANGED <<pc, chain, last, appends, health, shown, session>>

(***************************** specifications ******************************)
\* Each action takes the session that acts and the outcomes the storage
\* medium may give its save; AddBlock and the two views also take the forms
\* and the searches that may be submitted.

\* one browser session on a medium whose writes may fail: the single-writer
\* use the ledger is designed for
Next ==
    \/ Construct("s1", IoOutcomes)
    \/ AddBlock("s1", IoOutcomes, Submissions)
    \/ Reset("s1", IoOutcomes)
    \/ Export("s1", IoOutcomes)
    \/ ViewJourney("s1", TypedSearches)
    \/ ShowSummary("s1", TypedSearches)
    \/ Login("s1", WorkingCredentials)
    \/ Logout("s1")

Spec == Init /\ [][Next]_vars

\* the forms submitted by two farmers at work at the same time
ConcurrentSubmissions ==
    {Typed("create", <<"PRD-A">>, <<>>), Typed("create", <<"PRD-B">>, <<>>)}

\* two browser sessions whose script runs interleave on the one chain file,
\* on a reliable medium
NextConcurrent ==
    \/ \E s \in Sessions : Construct(s, IoReliable)
    \/ \E s \in Sessions : AddBlock(s, IoReliable, ConcurrentSubmissions)
    \/ \E s \in Sessions : Reset(s, IoReliable)
    \/ \E s \in Sessions : Export(s, IoReliable)
    \/ \E s \in Sessions : Login(s, {<<"farmer", "farmer123">>})

SpecConcurrent == Init /\ [][NextConcurrent]_vars

\* the forms submitted while the chain file is open to an editor
EditedSubmissions ==
    {Typed("create", <<"PRD-A">>, <<>>), Typed("create", <<" ", "PRD-B", " ">>, <<>>),
     Typed("create", <<" ">>, <<>>)}

\* one browser session and an editor of the chain file, on a reliable medium
NextTamper ==
    \/ Construct("s1", IoReliable)
    \/ AddBlock("s1", IoReliable, EditedSubmissions)
    \/ Reset("s1", IoReliable)
    \/ Export("s1", IoReliable)
    \/ ViewJourney("s1", {<<"PRD-A">>})
    \/ Login("s1", {<<"farmer", "farmer123">>})
    \/ Tamper

SpecTamper == Init /\ [][NextTamper]_vars

\* the forms submitted by a caller who types the product id of the genesis
\* record into the Product ID input
ReservedSubmissions ==
    {Typed("create", <<"GENESIS">>, <<>>), Typed("create", <<"PRD-A">>, <<>>),
     Typed("update", <<"GENESIS", " ">>, <<>>)}

\* one browser session whose caller types "GENESIS", on a reliable medium
NextReserved ==
    \/ Construct("s1", IoReliable)
    \/ AddBlock("s1", IoReliable, ReservedSubmissions)
    \/ ViewJourney("s1", {<<"GENESIS">>, <<"PRD-A">>})
    \/ Login("s1", {<<"farmer", "farmer123">>, <<"retailer", "retailer123">>})
    \/ Logout("s1")

SpecReserved == Init /\ [][NextReserved]_vars

\* the forms submitted by the users of the five accounts
LoginSubmissions ==
    {Typed("create", <<"PRD-A">>, <<>>), Typed("update", <<"PRD-A">>, <<>>),
     Typed("customer", <<"PRD-A">>, <<"Customer E">>),
     Typed("customer", <<"PRD-A">>, <<>>)}

\* one browser session whose user logs in and out with any of the accounts
\* (and with credentials that match none), on a reliable medium
NextLogin ==
    \/ Construct("s1", IoReliable)
    \/ Login("s1", Credentials)
    \/ Logout("s1")
    \/ AddBlock("s1", IoReliable, LoginSubmissions)

SpecLogin == Init /\ [][NextLogin]_vars

\* the form submitted by the farmer while both variants are in use
VariantSubmissions == {Typed("create", <<"PRD-A">>, <<>>)}

\* both variants of the script run against one blockchain.json on a reliable
\* medium: a browser session of the current script and runs of the older one
NextVariants ==
    \/ Construct("s1", IoReliable)
    \/ Login("s1", {<<"farmer", "farmer123">>})
    \/ AddBlock("s1", IoReliable, VariantSubmissions)
    \/ LegacyRun(IoReliable, LegacyInputs)

SpecVariants == Init /\ [][NextVariants]_vars

(***************************** claims **************************************)
\* both ledger invariants at every position after the genesis record
ChainLinked(c) ==
    \A i \in 2..Len(c) :
        /\ c[i].previous_hash = c[i-1].hash
        /\ c[i].hash = compute_hash(c[i])

\* C1: in every ledger built from a fresh genesis through add_block calls
\* (and the saves and reloads between them), every record after the genesis
\* carries its predecessor's hash as previous_hash, and its stored hash is
\* compute_hash of its other fields.
C1_ChainLinkage == \A s \in Sessions : ChainLinked(chain[s])

\* a chain with two appended records, the second just added
C1_Witness ==
    /\ last["s1"].op = "add_block"
    /\ Len(chain["s1"]) = 3
    /\ chain["s1"][3].previous_hash = chain["s1"][2].hash

\* the step is a call of handler op by session s that returned normally
Returned(s, op) ==
    /\ pc[s] = "ready"
    /\ pc'[s] = "done"
    /\ last'[s] = Call(op, FALSE, FALSE)

\* C2: every successful add_block lengthens the chain by exactly one, the
\* new record is the last one, and every record that was there before is
\* unchanged in every field.
C2_AppendOnly ==
    [][\A s \in Sessions :
          Returned(s, "add_block") =>
              /\ Len(chain'[s]) = Len(chain[s]) + 1
              /\ SubSeq(chain'[s], 1, Len(chain[s])) = chain[s]
              /\ chain'[s][Len(chain'[s])].index = chain[s][Len(chain[s])].index + 1]_vars

\* a successful add_block on a chain that already held an appended record
C2_Witness ==
    /\ last["s1"] = Call("add_block", FALSE, FALSE)
    /\ pc["s1"] = "done"
    /\ Len(chain["s1"]) = 3
    /\ file = JsonFile(dump_chain(chain["s1"]))

\* C8: in every reachable state the record at position i has index i, in
\* memory and in the chain file, so indices are unique and consecutive.
C8_IndexIsPosition ==
    /\ \A s \in Sessions :
          \A i \in 1..Len(chain[s]) : chain[s][i].index = i - 1
    /\ \A i \in 1..Len(file.items) : file.items[i].index = i - 1

\* a chain of three records reloaded from the file
C8_Witness ==
    /\ last["s1"].op = "init"
    /\ Len(chain["s1"]) = 3
    /\ chain["s1"][3].index = 2

\* the synthetic genesis record
IsGenesis(b) ==
    /\ b.index = 0
    /\ b.actor_role = "Network"
    /\ b.previous_hash = Str0

\* C9: whenever a session holds a constructed Blockchain, its chain is
\* non-empty and starts with the genesis record, so add_block has a last
\* record to link to.
C9_GenesisFirst ==
    \A s \in Sessions :
        pc[s] # "idle" => Len(chain[s]) >= 1 /\ IsGenesis(chain[s][1])

\* a Blockchain constructed by loading a file that holds appended records
C9_Witness ==
    /\ pc["s1"] = "ready"
    /\ last["s1"] = Call("init", FALSE, FALSE)
    /\ Len(chain["s1"]) >= 2
    /\ IsGenesis(chain["s1"][1])

\* C10: right after a save that went through, loading the file (as a new
\* Blockchain on it would) gives a chain of the same length with the same
\* value in every field of every record, hash and previous_hash included.
C10_RoundTrip ==
    \A s \in Sessions :
        (turn = s /\ pc[s] = "done" /\ last[s].result = "ok") =>
            /\ file.state = "ok"
            /\ Len(load_from_file(file)) = Len(chain[s])
            /\ load_from_file(file) = chain[s]

\* a saved chain holding records of two different callers
C10_Witness ==
    /\ turn = "s1"
    /\ pc["s1"] = "done"
    /\ last["s1"].result = "ok"
    /\ Len(chain["s1"]) = 3
    /\ chain["s1"][2].actor_role # chain["s1"][3].actor_role
    /\ load_from_file(file) = chain["s1"]

\* C11: a Blockchain constructed from an edited file loaded it without error,
\* holds for every record the hash value stored in the file (never a
\* recomputed one), and its is_chain_valid reported a violation.
C11_StoredHashKept ==
    \A s \in Sessions :
        (/\ tamper.pos > 0
         /\ turn = s
         /\ last[s] = Call("init", FALSE, FALSE)) =>
            /\ pc[s] = "ready"
            /\ \A i \in 1..Len(chain[s]) : chain[s][i].hash = file.items[i].hash
            /\ ~health[s].valid

\* the records of chain c whose product_id is p, as positions in c
Positions(c, p) == {i \in 1..Len(c) : c[i].product_id = p}

\* C12: for every product id, get_product_journey returns one dict per record
\* of that product id and no other dict, each equal to the record it stands
\* for, in strictly increasing index order; the journeys of two different
\* product ids share no record, and the journeys of all product ids together
\* hold every appended record exactly once.
C12_JourneyPartition ==
    \A s \in Sessions :
        LET c == chain[s]
            J == [p \in ProductIds |-> get_product_journey(c, p)]
        IN  /\ \A p \in ProductIds :
                  /\ Len(J[p]) = Cardinality(Positions(c, p))
                  /\ \A k \in 1..Len(J[p]) :
                        /\ J[p][k].product_id = p
                        /\ \E i \in Positions(c, p) : J[p][k] = to_dict(c[i])
                  /\ \A k \in 1..(Len(J[p]) - 1) : J[p][k].index < J[p][k+1].index
            /\ \A p, q \in ProductIds :
                  p # q => \A k \in 1..Len(J[p]), m \in 1..Len(J[q]) :
                               J[p][k] # J[q][m]
            /\ \A i \in 2..Len(c) :
                  Cardinality({<<p, k>> \in ProductIds \X (1..Len(c)) :
                                  k <= Len(J[p]) /\ J[p][k] = to_dict(c[i])}) = 1

\* "View Journey" rendered the journey of one product whose records are
\* interleaved with another product's
C12_Witness ==
    /\ last["s1"] = Call("view_journey", FALSE, FALSE)
    /\ Len(chain["s1"]) = 3
    /\ chain["s1"][2].product_id # chain["s1"][3].product_id
    /\ shown["s1"].body = <<to_dict(chain["s1"][3])>>

\* C13: a summary rendered for a product id with records shows the location
\* and the product name (default "Unknown") of that product's record with the
\* lowest index, and the location, status, payment method and details of its
\* record with the highest index, whatever the timestamps are.
C13_SummaryFirstAndLast ==
    \A s \in Sessions :
        (shown[s].view = "summary" /\ shown[s].message = "") =>
            LET c == chain[s]
                own == Positions(c, shown[s].product_id)
                lo == CHOOSE i \in own : \A j \in own : c[i].index <= c[j].index
                hi == CHOOSE i \in own : \A j \in own : c[j].index <= c[i].index
                sum == shown[s].body[1]
            IN  /\ own # {}
                /\ Len(shown[s].body) = 1
                /\ sum.origin = c[lo].location
                /\ \/ <<"product_name", sum.product_name>> \in c[lo].details.kv
                   \/ /\ \A kv \in c[lo].details.kv : kv[1] # "product_name"
                      /\ sum.product_name = "Unknown"
                /\ sum.final_location = c[hi].location
                /\ sum.status = c[hi].status
                /\ sum.payment_method = c[hi].payment_method
                /\ sum.details = c[hi].details

\* a summary of a product whose last record carries an earlier timestamp
\* than its first
C13_Witness ==
    /\ shown["s1"].view = "summary"
    /\ shown["s1"].product_id = "PRD-A"
    /\ Len(chain["s1"]) = 3
    /\ chain["s1"][2].product_id = "PRD-A"
    /\ chain["s1"][3].product_id = "PRD-A"
    /\ chain["s1"][2].timestamp = "2024-01-01 10:00:01"
    /\ chain["s1"][3].timestamp = "2024-01-01 10:00:00"
    /\ chain["s1"][2].status # chain["s1"][3].status
    /\ shown["s1"].body[1].status = chain["s1"][3].status
    /\ shown["s1"].body[1].origin = chain["s1"][2].location

\* the step is a press of "View Journey" or "Show Customer Summary" by s
Viewed(s) ==
    /\ pc[s] = "ready"
    /\ pc'[s] = "done"
    /\ last'[s].op \in {"view_journey", "summary"}

\* C14: a view asked for a product id that no record of the chain carries
\* returns normally, get_product_journey gives the empty list, the page shows
\* the "No records found" warning and neither a journey nor a summary, and
\* the chain and the chain file stay as they were.
C14_UnknownSubject ==
    [][\A s \in Sessions :
          (/\ Viewed(s)
           /\ shown'[s].product_id # ""
           /\ Positions(chain[s], shown'[s].product_id) = {}) =>
              /\ last'[s].result = "ok"
              /\ get_product_journey(chain[s], shown'[s].product_id) = <<>>
              /\ shown'[s].body = <<>>
              /\ shown'[s].message = "No records found for this Product ID."
              /\ chain' = chain
              /\ file' = file]_vars

\* a summary asked for a product id that was never appended, on a chain that
\* holds records of other products
C14_Witness ==
    /\ last["s1"] = Call("summary", FALSE, FALSE)
    /\ shown["s1"].product_id = "PRD-Z"
    /\ shown["s1"].body = <<>>
    /\ Len(chain["s1"]) = 3
    /\ file = JsonFile(dump_chain(chain["s1"]))

\* C15: when "Reset chain to genesis" returns, bc.chain and the chain file
\* hold one and the same record, a genesis record whose hash is its digest;
\* the chain verifies valid, and any add_block on it gives a record of index
\* 1 whose previous_hash is that genesis record's hash.
C15_ResetToGenesis ==
    [][\A s \in Sessions :
          Returned(s, "reset") =>
              /\ Len(chain'[s]) = 1
              /\ IsGenesis(chain'[s][1])
              /\ chain'[s][1].hash = compute_hash(chain'[s][1])
              /\ file' = JsonFile(<<to_dict(chain'[s][1])>>)
              /\ is_chain_valid(chain'[s]) =
                    [valid |-> TRUE, kind |-> "Chain is valid", block |-> 0]
              /\ \A typed \in Submissions, ts \in Times :
                    \A args \in submit(typed, session[s].user).calls :
                        LET c == add_block(chain'[s], args, ts)
                        IN  /\ Len(c) = 2
                            /\ c[1] = chain'[s][1]
                            /\ c[2].index = 1
                            /\ c[2].previous_hash = c[1].hash]_vars

\* a reset, after the appends of the run so far, that left one record
C15_Witness ==
    /\ last["s1"] = Call("reset", FALSE, FALSE)
    /\ pc["s1"] = "done"
    /\ appends = MaxAppends
    /\ Len(chain["s1"]) = 1
    /\ Len(file.items) = 1

\* a typed text that is empty or holds whitespace only
Blank(pieces) == \A i \in 1..Len(pieces) : pieces[i] = " "

\* C16: a form submitted with a blank Product ID (or, for the customer form,
\* a blank Customer Name) makes no add_block call; the step that rejects a
\* form leaves the chain and the chain file as they were; and no record with
\* a blank product_id is ever in the chain or in the file.
C16_BlankRejected ==
    [][/\ \A t \in TypedPids, n \in TypedNames, s \in Sessions :
             /\ Blank(t) => /\ create_product_btn(t, session[s].user).calls = {}
                            /\ record_tx_btn(t, session[s].user).calls = {}
                            /\ cust_submit_btn(t, n).calls = {}
             /\ Blank(n) => cust_submit_btn(t, n).calls = {}
       /\ \A s \in Sessions :
             /\ Returned(s, "rejected") =>
                   /\ chain' = chain
                   /\ file' = file
                   /\ shown'[s].message
                         \in {"Product ID required.", "Customer name required."}
             /\ \A i \in 1..Len(chain'[s]) :
                   chain'[s][i].product_id \notin {Text(t) : t \in {<<>>, <<" ">>, <<" ", " ">>}}
       /\ \A i \in 1..Len(file'.items) :
             file'.items[i].product_id \notin {Text(t) : t \in {<<>>, <<" ">>, <<" ", " ">>}}]_vars

\* the customer form rejected for its blank name, on a chain with a record
C16_Witness ==
    /\ last["s1"] = Call("rejected", FALSE, FALSE)
    /\ shown["s1"].message = "Customer name required."
    /\ Len(chain["s1"]) = 2
    /\ file = JsonFile(dump_chain(chain["s1"]))

\* the step is a new script run of s that loaded the chain file
Loaded(s) ==
    /\ file.state = "ok"
    /\ turn' = s
    /\ last'[s] = Call("init", FALSE, FALSE)
    /\ pc'[s] = "ready"
    /\ shown'[s] = NoView

\* C17: "View Journey" and "Show Customer Summary" leave every session's
\* chain and the chain file as they were, whatever they render; and after the
\* chain health line of a run (is_chain_valid) the chain is the one the run
\* loaded and the file is untouched.
C17_ReadsChangeNothing ==
    [][\A s \in Sessions :
          /\ Viewed(s) => chain' = chain /\ file' = file
          /\ Loaded(s) => /\ health'[s] = is_chain_valid(load_from_file(file))
                          /\ chain'[s] = load_from_file(file)
                          /\ file' = file]_vars

\* a journey of two records rendered from a valid chain of three, the chain
\* file still holding that chain
C17_Witness ==
    /\ last["s1"] = Call("view_journey", FALSE, FALSE)
    /\ shown["s1"].message = ""
    /\ Len(shown["s1"].body) = 2
    /\ Len(chain["s1"]) = 3
    /\ file = JsonFile(dump_chain(chain["s1"]))
    /\ health["s1"].valid

\* the step is a handler call of s on a chain whose health line said invalid
OnInvalidChain(s) ==
    /\ pc[s] = "ready"
    /\ health[s].kind \in {"Broken link", "Hash mismatch"}
    /\ pc'[s] = "done"

\* what C18 asks of such a step: it returns normally; an add_block appends
\* its record to the chain as loaded; a view renders the journey
StillWorks(s) ==
    /\ last'[s].result = "ok"
    /\ last'[s].op = "add_block" =>
          /\ Len(chain'[s]) = Len(chain[s]) + 1
          /\ SubSeq(chain'[s], 1, Len(chain[s])) = chain[s]
          /\ file' = JsonFile(dump_chain(chain'[s]))
    /\ last'[s].op = "view_journey" =>
          /\ shown'[s].body = get_product_journey(chain[s], "PRD-A")
          /\ chain' = chain

\* C18: on a loaded chain for which is_chain_valid returned (False, ...),
\* every handler call returns normally: add_block appends and saves its
\* record, get_product_journey gives the journey.
C18_InvalidChainStillWorks ==
    [][\A s \in Sessions : OnInvalidChain(s) => StillWorks(s)]_vars

\* the same, for every chain whose last record carries a number as index
C18_NumberIndexStillWorks ==
    [][\A s \in Sessions :
          (OnInvalidChain(s) /\ ~add_block_raises(chain[s])) => StillWorks(s)]_vars

\* C19: whenever the chain file holds a list, compute_hash of every record
\* loaded from it (the genesis record included) is the hash stored for it, and
\* the loaded chain verifies valid; so does the chain of every script run
\* that loaded the file, however many saves and runs came before.
C19_DigestReproducible ==
    /\ file.state = "ok" =>
          LET c == load_from_file(file)
          IN  /\ \A i \in 1..Len(c) : compute_hash(c[i]) = file.items[i].hash
              /\ is_chain_valid(c).valid
    /\ \A s \in Sessions :
          pc[s] = "ready" =>
              /\ \A i \in 1..Len(chain[s]) :
                    compute_hash(chain[s][i]) = chain[s][i].hash
              /\ health[s] = [valid |-> TRUE, kind |-> "Chain is valid", block |-> 0]

\* a third script run, which loaded the two records the runs before it saved
C19_Witness ==
    /\ pc["s1"] = "ready"
    /\ appends = 2
    /\ Len(chain["s1"]) = 3
    /\ chain["s1"][2].details # chain["s1"][3].details
    /\ health["s1"].kind = "Chain is valid"

\* the two ledger invariants at position i of chain c
LinkOk(c, i) == i > 1 => c[i].previous_hash = c[i-1].hash
DigestOk(c, i) == c[i].hash = compute_hash(c[i])

\* C20 as stated: the chain health of a run is valid exactly when every
\* record of the run's chain, the genesis record included, satisfies both
\* invariants.
C20_ValidIffEveryRecord ==
    \A s \in Sessions :
        pc[s] = "ready" =>
            (health[s].valid <=>
                \A i \in 1..Len(chain[s]) :
                    LinkOk(chain[s], i) /\ DigestOk(chain[s], i))

\* C20, amended: the chain health of a run is valid exactly when every record
\* after the genesis record satisfies both invariants (the genesis record's
\* hash is not compared with its digest); otherwise it names the smallest
\* position after the genesis where one fails, as a broken link when the link
\* fails there and as a hash mismatch only when the link holds there.
C20_FirstViolationAfterGenesis ==
    \A s \in Sessions :
        pc[s] = "ready" =>
            LET c == chain[s]
                bad == {i \in 2..Len(c) : ~LinkOk(c, i) \/ ~DigestOk(c, i)}
                m == CHOOSE i \in bad : \A j \in bad : i <= j
            IN  /\ health[s].valid <=> bad = {}
                /\ bad = {} => health[s].kind = "Chain is valid"
                /\ bad # {} =>
                      /\ health[s].block = m - 1
                      /\ ~LinkOk(c, m) => health[s].kind = "Broken link"
                      /\ LinkOk(c, m) => health[s].kind = "Hash mismatch"

\* a loaded chain of three records whose second record fails both
\* invariants, reported as a broken link
C20_Witness ==
    /\ pc["s1"] = "ready"
    /\ Len(chain["s1"]) = 3
    /\ ~LinkOk(chain["s1"], 2)
    /\ ~DigestOk(chain["s1"], 2)
    /\ health["s1"] = [valid |-> FALSE, kind |-> "Broken link", block |-> 1]

\* C21: no record after the first carries the product_id of the genesis
\* record, and no journey rendered for a product id holds the genesis record.
C21_GenesisSubjectReserved ==
    \A s \in Sessions :
        /\ \A i \in 2..Len(chain[s]) :
              chain[s][i].product_id # chain[s][1].product_id
        /\ shown[s].view = "journey" =>
              \A k \in 1..Len(shown[s].body) : ~IsGenesis(shown[s].body[k])

\* the chain health of s reports a violation, and s has not reset its chain
Violation(s) ==
    /\ health[s].kind \in {"Broken link", "Hash mismatch"}
    /\ last[s].op # "reset"

\* C22: once the chain health of a run reported a violation, every step other
\* than a reset (add_block calls, saves, views, new runs reloading the file)
\* leaves is_chain_valid reporting the same violation at the same block: on
\* the chain in memory, on the chain a load of the file gives, and as the
\* chain health of the next run.
C22_ViolationStable ==
    [][\A s \in Sessions :
          (Violation(s) /\ last'[s].op # "reset") =>
              /\ health'[s] = health[s]
              /\ is_chain_valid(chain'[s]) = health[s]
              /\ file'.state = "ok"
              /\ is_chain_valid(load_from_file(file')) = health[s]]_vars

\* an add_block on a loaded chain whose block 1 failed verification: the
\* chain with the new record, in memory and as saved, still fails at block 1
C22_Witness ==
    /\ last["s1"] = Call("add_block", FALSE, FALSE)
    /\ tamper = Spent
    /\ Len(chain["s1"]) = 3
    /\ health["s1"].block = 1
    /\ is_chain_valid(chain["s1"]) = health["s1"]
    /\ is_chain_valid(load_from_file(file)).kind \in {"Broken link", "Hash mismatch"}
    /\ LinkOk(chain["s1"], 3)
    /\ DigestOk(chain["s1"], 3)

\* the step is a handler of the run of s that makes its chain longer
Appended(s) == pc[s] = "ready" /\ Len(chain'[s]) > Len(chain[s])

\* C23: a session is logged in exactly when its user is set, and then the
\* user is an account of the users table; it becomes logged in only by a
\* "Login" with a username and password of that table, and logged out only
\* by "Logout"; a record is appended only by a form handler of a logged-in
\* session, and its actor_role is the role of that session's user: a
\* Farmer's record has status Created, and only a Farmer's has; the other
\* records come from a Wholesaler, Distributor, Retailer or Customer.
C23_RoleGatedAppends ==
    [][/\ \A cred \in Credentials :
             login_button(cred[1], cred[2]).logged_in <=>
                 \E u \in DOMAIN DEFAULT_USERS :
                     cred = <<u, DEFAULT_USERS[u].password>>
       /\ \A s \in Sessions :
             /\ session'[s].logged_in <=> session'[s].user # NoUser
             /\ session'[s].logged_in =>
                   \E u \in DOMAIN DEFAULT_USERS :
                       /\ session'[s].user.username = u
                       /\ session'[s].user.role = DEFAULT_USERS[u].role
                       /\ session'[s].user.name = DEFAULT_USERS[u].name
             /\ (~session[s].logged_in /\ session'[s].logged_in) =>
                   Returned(s, "login")
             /\ (session[s].logged_in /\ ~session'[s].logged_in) =>
                   Returned(s, "logout")
             /\ Appended(s) =>
                   LET new == chain'[s][Len(chain'[s])]
                   IN  /\ last'[s].op = "add_block"
                       /\ Len(chain'[s]) = Len(chain[s]) + 1
                       /\ session[s].logged_in
                       /\ session'[s] = session[s]
                       /\ new.actor_role = session[s].user.role
                       /\ new.actor_role \in {"Farmer", "Wholesaler", "Distributor",
                                              "Retailer", "Customer"}
                       /\ new.actor_role = "Farmer" <=> new.status = "Created"]_vars

\* a record appended by the update form of the logged-in retailer
C23_Witness ==
    /\ last["s1"] = Call("add_block", FALSE, FALSE)
    /\ session["s1"].logged_in
    /\ session["s1"].user.username = "retailer"
    /\ Len(chain["s1"]) = 3
    /\ chain["s1"][3].actor_role = "Retailer"
    /\ chain["s1"][2].actor_role = "Farmer"

\* C24: a chain that holds records written by the older variant loads under
\* the current one with every such record's stored digest equal to the digest
\* the current compute_hash returns for its field values, and the chain health
\* line (is_chain_valid) reports it valid.
C24_DigestPinned ==
    \A s \in Sessions :
        pc[s] = "ready" =>
            /\ \A i \in 1..Len(chain[s]) :
                  chain[s][i].hash = legacy_compute_hash(chain[s][i]) =>
                      chain[s][i].hash = compute_hash(chain[s][i])
            /\ health[s].valid

\* C3: after one field of one non-genesis record of a stored ledger was
\* changed in the file, a Blockchain constructed from the file reports the
\* chain invalid, at a block position at or before the changed record.
C3_TamperDetected ==
    \A s \in Sessions :
        (tamper.pos > 0 /\ turn = s /\ last[s] = Call("init", FALSE, FALSE)) =>
            /\ ~is_chain_valid(chain[s]).valid
            /\ is_chain_valid(chain[s]).block <= tamper.pos

\* the same, for every edit except one that leaves the hash field falsy
C3_TruthyEditDetected ==
    \A s \in Sessions :
        (/\ tamper.pos > 0
         /\ turn = s
         /\ last[s] = Call("init", FALSE, FALSE)
         /\ Truthy(file.items[tamper.pos + 1].hash)) =>
            /\ ~is_chain_valid(chain[s]).valid
            /\ is_chain_valid(chain[s]).block <= tamper.pos

\* C4: after an add_block whose save failed, every record of the in-memory
\* chain is in the chain file (the append was rolled back or is durable).
C4_FailedAppendNotInMemory ==
    \A s \in Sessions :
        (turn = s /\ last[s] = Call("add_block", TRUE, FALSE)) =>
            /\ file.state = "ok"
            /\ \A i \in 1..Len(chain[s]) :
                  \E j \in 1..Len(file.items) :
                      load_from_file(file)[j] = chain[s][i]

\* C5: a Blockchain() that found the chain file malformed never returns
\* normally with a fresh genesis chain (the constructor has no way to hand a
\* warning to its caller, so returning normally is returning silently).
C5_DamagedStoreNotSilent ==
    \A s \in Sessions :
        (last[s].op = "init" /\ last[s].recovered) => last[s].result = "raised"

\* the step is a call of a handler by session s that raised IOError
Failed(s) ==
    /\ pc[s] = "ready"
    /\ pc'[s] = "done"
    /\ last'[s].result = "raised"

\* C6: a failed write of add_block, reset or export leaves the ledger that
\* was in the chain file before the call loadable and unchanged.
C6_FailedWriteKeepsFile ==
    [][\A s \in Sessions :
          (Failed(s) /\ file.state = "ok") =>
              /\ file'.state = "ok"
              /\ load_from_file(file') = load_from_file(file)]_vars

\* C7: when two sessions loaded the same ledger and each appended one record
\* to it successfully, the chain file holds both records, one after the
\* other, validly linked.
C7_NoLostAppend ==
    (/\ \A s \in Sessions :
            pc[s] = "done" /\ last[s] = Call("add_block", FALSE, FALSE)
     /\ Len(chain["s1"]) = Len(chain["s2"])
     /\ SubSeq(chain["s1"], 1, Len(chain["s1"]) - 1)
            = SubSeq(chain["s2"], 1, Len(chain["s2"]) - 1)) =>
        /\ file.state = "ok"
        /\ Len(file.items) = Len(chain["s1"]) + 1
        /\ ChainLinked(load_from_file(file))
        /\ \A s \in Sessions :
              \E j \in 1..Len(file.items) :
                  block_content(file.items[j])
                      = [block_content(chain[s][Len(chain[s])])
                            EXCEPT !.index = j - 1,
                                   !.previous_hash = file.items[j].previous_hash]

=============================================================================
